---- MODULE Spec2Model ----
(***************************************************************************)
(* The chat endpoint of src/main.py (lines 271-410) as a state machine.    *)
(*                                                                         *)
(* One conversation is a sequence of turns; a turn is one call of chat():  *)
(* it connects a ClaudeSDKClient with the fixed options, sends the latest  *)
(* user message, and walks the engine's message stream, buffering the      *)
(* main agent's text and yielding fragments to the caller.                 *)
(*                                                                         *)
(* Text is a sequence of one-token strings, so that str.strip, "".join     *)
(* and the f-strings of the source are modelled by what they do.  The      *)
(* emoji prefixes of the source are written as ASCII tokens:               *)
(*   "thought: "            for  "(thought balloon) "        line 379      *)
(*   "Delegating to: "      for  "(arrows) Delegating to: "  line 380      *)
(*   "Prompt to subagent:"  for  "(memo) Prompt to subagent:" line 382     *)
(*   "<fence>"              for  the three backquotes        line 384      *)
(***************************************************************************)
EXTENDS Integers, Sequences, FiniteSets, TLC

VARIABLES
    pc,                 \* per conversation: where its current chat() call stands
    turn,               \* per conversation: number of chat() calls started
    query,              \* per conversation: user_message sent with client.query
    client,             \* per conversation: options the client was built with
    main_agent_buffer,  \* per call: the local list main_agent_buffer
    out,                \* per call: fragments yielded to the caller so far
    hist,               \* per call: messages received from receive_response so far
    stream,             \* engine side: the state of the call's response stream
    session_id,         \* engine side: session id of the last init message
    produced,           \* workers whose sub-agent output was yielded in the conversation
    confirmed           \* workers whose output a later inbound message confirmed

vars == <<pc, turn, query, client, main_agent_buffer, out, hist, stream,
          session_id, produced, confirmed>>

-----------------------------------------------------------------------------
(* Bounds *)

MaxEvents == 3      \* messages of the call, specification Spec
MaxTurns == 2       \* turns of the conversation, specification SpecTurns
TurnEvents == 2     \* messages of one turn, specification SpecTurns
ConcEvents == 2     \* messages of one call, specification SpecConc

-----------------------------------------------------------------------------
(* Values *)

None == "None"

Convs == {"k1", "k2"}

\* The agents registered with the engine on every turn (options.agents),
\* in the order of the workflow of MAIN_AGENT_PROMPT.
Workers == <<"brief-analyzer", "market-researcher",
             "creative-director", "social-media-writer">>

WorkerSet == {Workers[n] : n \in 1..Len(Workers)}

StageOf(w) == CHOOSE n \in 1..Len(Workers) : Workers[n] = w

\* ClaudeAgentOptions(...) of lines 285-318: the same value on every turn;
\* no resume token is ever given.
options ==
    [model |-> "sonnet",
     allowed_tools |-> {"Task", "WebSearch", "WebFetch"},
     continue_conversation |-> TRUE,
     resume |-> None,
     agents |-> WorkerSet]

Whitespace == {" ", "\n"}

\* str.strip(): leading and trailing whitespace removed.
RECURSIVE LStrip(_)
LStrip(s) ==
    IF s = <<>> THEN s
    ELSE IF Head(s) \in Whitespace THEN LStrip(Tail(s)) ELSE s

RECURSIVE RStrip(_)
RStrip(s) ==
    IF s = <<>> THEN s
    ELSE IF s[Len(s)] \in Whitespace THEN RStrip(SubSeq(s, 1, Len(s) - 1)) ELSE s

Strip(s) == RStrip(LStrip(s))

\* The tokens a text is made of.
Tokens(text) == {text[k] : k \in 1..Len(text)}

\* sep.join(parts)
RECURSIVE Join(_, _)
Join(sep, parts) ==
    IF parts = <<>> THEN <<>>
    ELSE IF Len(parts) = 1 THEN parts[1]
    ELSE parts[1] \o sep \o Join(sep, Tail(parts))

-----------------------------------------------------------------------------
(* Messages of the engine *)

NoInput == [kind |-> "none", keys |-> {}, subagent_type |-> "",
            description |-> <<>>, prompt |-> <<>>]

TextBlock(t) == [type |-> "TextBlock", text |-> t, name |-> "", input |-> NoInput]

ToolUseBlock(n, i) == [type |-> "ToolUseBlock", text |-> <<>>, name |-> n, input |-> i]

\* The input mapping of a Task tool use; prompt = <<>> is the empty string.
TaskInput(w, d, p) ==
    [kind |-> "dict", keys |-> {"subagent_type", "description", "prompt"},
     subagent_type |-> w, description |-> d, prompt |-> p]

\* A tool input that is no mapping (and not falsy).
ListInput == [kind |-> "list", keys |-> {}, subagent_type |-> "",
              description |-> <<>>, prompt |-> <<>>]

AssistantMessage(parent, content) ==
    [type |-> "AssistantMessage", parent_tool_use_id |-> parent,
     has_content |-> TRUE, content |-> content, session_id |-> None]

\* An assistant message whose content is None.
AssistantNoContent(parent) ==
    [type |-> "AssistantMessage", parent_tool_use_id |-> parent,
     has_content |-> FALSE, content |-> <<>>, session_id |-> None]

\* SystemMessage(subtype="init") carrying the session id.
InitMessage(tok) ==
    [type |-> "SystemMessage", parent_tool_use_id |-> None,
     has_content |-> FALSE, content |-> <<>>, session_id |-> tok]

\* A replayed user / tool-result message: it has content blocks of its own.
UserMessage(content) ==
    [type |-> "UserMessage", parent_tool_use_id |-> None,
     has_content |-> TRUE, content |-> content, session_id |-> None]

ResultMessage ==
    [type |-> "ResultMessage", parent_tool_use_id |-> None,
     has_content |-> FALSE, content |-> <<>>, session_id |-> None]

\* Every string the engine supplies in the i-th message of a turn is built
\* from letters of its own, so that the origin of a token of the output is
\* read off the token.
Letters == <<"a", "b", "c", "d", "e", "f", "g", "h", "i", "j", "k", "l", "m",
             "n", "o", "p", "q", "r", "s", "t", "u", "v", "w", "x", "y", "z">>

L(i, j) == Letters[3 * (i - 1) + j]

SessionTokens == [k1 |-> <<"s1", "s2", "s3", "s4">>,
                  k2 |-> <<"t1", "t2", "t3", "t4">>]

\* The messages the engine may deliver as the i-th message of turn n of
\* conversation c.
EventPool(c, n, i) ==
    LET a == L(i, 1)
        b == L(i, 2)
        w1 == Workers[1]
        w2 == Workers[2]
    IN  { InitMessage(SessionTokens[c][n]),
          UserMessage(<<TextBlock(<<a>>)>>),
          ResultMessage,
          AssistantMessage(None, <<TextBlock(<<a>>)>>),
          AssistantMessage(None, <<TextBlock(<<" ">>)>>),
          AssistantMessage(None, <<TextBlock(<<" ", a>>), TextBlock(<<b, "\n">>)>>),
          AssistantMessage(None, <<ToolUseBlock("Task", TaskInput(w1, <<a>>, <<b>>))>>),
          AssistantMessage(None, <<ToolUseBlock("Task", TaskInput(w2, <<a>>, <<>>))>>),
          AssistantMessage(None, <<TextBlock(<<a>>),
                                   ToolUseBlock("Task", TaskInput(w1, <<b>>, <<>>))>>),
          AssistantMessage(None, <<ToolUseBlock("Task", TaskInput(w1, <<a>>, <<>>)),
                                   ToolUseBlock("Task", TaskInput(w2, <<b>>, <<L(i, 3)>>))>>),
          AssistantMessage(w1, <<TextBlock(<<a>>)>>),
          AssistantMessage(w2, <<TextBlock(<<a>>), ToolUseBlock("WebSearch", NoInput),
                                 TextBlock(<<b>>)>>),
          AssistantMessage(w1, <<TextBlock(<<a>>),
                                 ToolUseBlock("Task", TaskInput(w2, <<b>>, <<>>))>>),
          AssistantNoContent(None),
          AssistantMessage(None, <<ToolUseBlock("Task", ListInput)>>) }

\* The smaller choice of messages of specification SpecConc.
ConcPool(c, n, i) ==
    LET a == L(i, 1)
        b == L(i, 2)
        w1 == Workers[1]
    IN  { InitMessage(SessionTokens[c][n]),
          AssistantMessage(None, <<TextBlock(<<a>>)>>),
          AssistantMessage(None, <<ToolUseBlock("Task", TaskInput(w1, <<a>>, <<b>>))>>),
          AssistantMessage(w1, <<TextBlock(<<a>>)>>) }

\* The choice of messages of specification SpecTurns: the init message, and
\* for each of the first two workers a delegation and the worker's output.
TurnPool(c, n, i) ==
    LET a == L(i, 1)
        b == L(i, 2)
    IN  { InitMessage(SessionTokens[c][n]) }
        \cup { AssistantMessage(None, <<ToolUseBlock("Task", TaskInput(Workers[k], <<a>>, <<b>>))>>)
                : k \in 1..2 }
        \cup { AssistantMessage(Workers[k], <<TextBlock(<<a>>)>>) : k \in 1..2 }

-----------------------------------------------------------------------------
(* The body of the loop over receive_response *)

IsAssistant(message) == message.type = "AssistantMessage"

IsTask(block) == block.type = "ToolUseBlock" /\ block.name = "Task"

\* tool_input = getattr(block, "input", {}) or {};  tool_input.get(key, default)
Get(input, key, default) ==
    IF input.kind = "dict" /\ key \in input.keys THEN input[key] ELSE default

\* tool_input.get raises AttributeError on a truthy input that is no mapping.
GetRaises(block) == IsTask(block) /\ block.input.kind = "list"

\* What raises inside the loop body: len(message.content) of line 338 on a
\* content of None, and tool_input.get of lines 346 and 363.  Both happen in
\* the logging block, before anything of this message is yielded.
Raises(message) ==
    /\ IsAssistant(message)
    /\ \/ ~message.has_content
       \/ \E k \in 1..Len(message.content) : GetRaises(message.content[k])

NoTask == [set |-> FALSE, subagent |-> "", description |-> <<>>, prompt |-> <<>>]

\* TaskScan that stops at the first Task block.
RECURSIVE TaskScanFirst(_, _)
TaskScanFirst(content, task_info) ==
    IF content = <<>> \/ task_info.set THEN task_info
    ELSE TaskScanFirst(Tail(content),
                       IF IsTask(Head(content))
                       THEN [set |-> TRUE,
                             subagent |-> Get(Head(content).input, "subagent_type", "unknown"),
                             description |-> Get(Head(content).input, "description", <<>>),
                             prompt |-> Get(Head(content).input, "prompt", <<>>)]
                       ELSE task_info)

\* Lines 359-366: task_info after the loop over the blocks (the last Task
\* block wins).
RECURSIVE TaskScan(_, _)
TaskScan(content, task_info) ==
    IF content = <<>> THEN task_info
    ELSE TaskScan(Tail(content),
                  IF IsTask(Head(content))
                  THEN [set |-> TRUE,
                        subagent |-> Get(Head(content).input, "subagent_type", "unknown"),
                        description |-> Get(Head(content).input, "description", <<>>),
                        prompt |-> Get(Head(content).input, "prompt", <<>>)]
                  ELSE task_info)

TaskInfo(content) == TaskScan(content, NoTask)

\* [block.text for block in content if isinstance(block, TextBlock)]
RECURSIVE TextsOf(_)
TextsOf(content) ==
    IF content = <<>> THEN <<>>
    ELSE (IF Head(content).type = "TextBlock" THEN <<Head(content).text>> ELSE <<>>)
         \o TextsOf(Tail(content))

\* "".join(main_agent_buffer).strip()
Buffered(buffer) == Strip(Join(<<>>, buffer))

\* Line 384: the line of three backquotes, with the line breaks around it.
Fence == <<"\n", "<fence>", "\n">>

\* DelegationBlock with the prompt section put in front of the target line.
DelegationBlockPromptFirst(buffered, task_info) ==
    LET parts ==
            (IF buffered # <<>> THEN << <<"thought: ">> \o buffered >> ELSE <<>>)
            \o (IF task_info.prompt # <<>>
                THEN << <<"\n", "Prompt to subagent:", "\n">> \o task_info.prompt >>
                ELSE <<>>)
            \o << <<"Delegating to: ", task_info.subagent, " - ">>
                  \o task_info.description >>
    IN  Fence \o Join(<<"\n">>, parts) \o Fence

\* Lines 376-384: the fenced delegation block.
DelegationBlock(buffered, task_info) ==
    LET parts ==
            (IF buffered # <<>> THEN << <<"thought: ">> \o buffered >> ELSE <<>>)
            \o << <<"Delegating to: ", task_info.subagent, " - ">>
                  \o task_info.description >>
            \o (IF task_info.prompt # <<>>
                THEN << <<"\n", "Prompt to subagent:", "\n">> \o task_info.prompt >>
                ELSE <<>>)
    IN  Fence \o Join(<<"\n">>, parts) \o Fence

\* Line 399: the buffered text flushed as plain prose before sub-agent output.
PlainFlush(buffered) == <<"\n">> \o buffered \o <<"\n", "\n">>

Step(buffer, yields) == [buffer |-> buffer, yields |-> yields, raised |-> FALSE]

\* MainAgentMessage with the buffered text flushed as a fragment of its own
\* in front of the delegation block.
MainAgentMessageSplit(buffer, content) ==
    LET task_info == TaskInfo(content)
    IN  IF task_info.set
        THEN Step(<<>>, (IF Buffered(buffer) # <<>>
                         THEN <<PlainFlush(Buffered(buffer))>> ELSE <<>>)
                        \o <<DelegationBlock(<<>>, task_info)>>)
        ELSE Step(buffer \o TextsOf(content), <<>>)

\* MainAgentMessage with the text yielded at once instead of buffered.
MainAgentMessageEager(buffer, content) ==
    LET task_info == TaskInfo(content)
    IN  IF task_info.set
        THEN Step(<<>>, <<DelegationBlock(Buffered(buffer), task_info)>>)
        ELSE Step(buffer, TextsOf(content))

\* MainAgentMessage without main_agent_buffer.clear() of line 373.
MainAgentMessageNoClear(buffer, content) ==
    LET task_info == TaskInfo(content)
    IN  IF task_info.set
        THEN Step(buffer, <<DelegationBlock(Buffered(buffer), task_info)>>)
        ELSE Step(buffer \o TextsOf(content), <<>>)

\* Lines 369-391: a message of the main agent (parent_id is None).
MainAgentMessage(buffer, content) ==
    LET task_info == TaskInfo(content)
    IN  IF task_info.set
        THEN Step(<<>>, <<DelegationBlock(Buffered(buffer), task_info)>>)
        ELSE Step(buffer \o TextsOf(content), <<>>)

\* SubagentMessage with the buffered text flushed inside a fenced block, as
\* the delegation path does.
SubagentMessageFenced(buffer, content) ==
    LET flush == IF buffer # <<>> /\ Buffered(buffer) # <<>>
                 THEN <<Fence \o Buffered(buffer) \o Fence>>
                 ELSE <<>>
    IN  Step(<<>>, flush \o TextsOf(content))

\* SubagentMessage with the buffered text flushed after the sub-agent's text.
SubagentMessageLate(buffer, content) ==
    LET flush == IF buffer # <<>> /\ Buffered(buffer) # <<>>
                 THEN <<PlainFlush(Buffered(buffer))>>
                 ELSE <<>>
    IN  Step(<<>>, TextsOf(content) \o flush)

\* SubagentMessage that yields the texts of the message as one fragment.
SubagentMessageJoined(buffer, content) ==
    LET flush == IF buffer # <<>> /\ Buffered(buffer) # <<>>
                 THEN <<PlainFlush(Buffered(buffer))>>
                 ELSE <<>>
        texts == TextsOf(content)
    IN  Step(<<>>, flush \o (IF texts = <<>> THEN <<>> ELSE <<Join(<<>>, texts)>>))

\* SubagentMessage without main_agent_buffer.clear() of line 397.
SubagentMessageNoClear(buffer, content) ==
    LET flush == IF buffer # <<>> /\ Buffered(buffer) # <<>>
                 THEN <<PlainFlush(Buffered(buffer))>>
                 ELSE <<>>
    IN  Step(buffer, flush \o TextsOf(content))

\* Lines 393-404: a message from a sub-agent (parent_id is set).
SubagentMessage(buffer, content) ==
    LET flush == IF buffer # <<>> /\ Buffered(buffer) # <<>>
                 THEN <<PlainFlush(Buffered(buffer))>>
                 ELSE <<>>
    IN  Step(<<>>, flush \o TextsOf(content))

\* ProcessMessage without the skip of lines 351-353.
ProcessMessageNoSkip(buffer, message) ==
    IF Raises(message) \/ ~message.has_content
    THEN [buffer |-> buffer, yields |-> <<>>, raised |-> TRUE]
    ELSE IF message.parent_tool_use_id = None
    THEN MainAgentMessage(buffer, message.content)
    ELSE SubagentMessage(buffer, message.content)

\* Lines 328-404: one iteration of the loop.
ProcessMessage(buffer, message) ==
    IF Raises(message)
    THEN [buffer |-> buffer, yields |-> <<>>, raised |-> TRUE]
    ELSE IF ~IsAssistant(message)
    THEN Step(buffer, <<>>)
    ELSE IF message.parent_tool_use_id = None
    THEN MainAgentMessage(buffer, message.content)
    ELSE SubagentMessage(buffer, message.content)

\* FinalFlush with lines 406-410 left out.
FinalFlushNone(buffer) == <<>>

\* Lines 406-410: what is yielded after the stream has ended.
FinalFlush(buffer) ==
    IF buffer # <<>> /\ Buffered(buffer) # <<>> THEN <<Buffered(buffer)>> ELSE <<>>

\* Line 321 and lines 327-404 over a whole sequence of messages: the buffer
\* and the fragments of a call that has received `messages`.
RECURSIVE Run(_)
Run(messages) ==
    IF messages = <<>> THEN [buffer |-> <<>>, out |-> <<>>, raised |-> FALSE]
    ELSE LET before == Run(SubSeq(messages, 1, Len(messages) - 1))
             step == ProcessMessage(before.buffer, messages[Len(messages)])
         IN  IF before.raised THEN before
             ELSE [buffer |-> step.buffer, out |-> before.out \o step.yields,
                   raised |-> step.raised]

-----------------------------------------------------------------------------
(* State machine *)

\* context.messages[-1]["content"]: what the caller sends in.
Inbound == {"brief", "yes"}

Init ==
    /\ pc = [c \in Convs |-> "idle"]
    /\ turn = [c \in Convs |-> 0]
    /\ query = [c \in Convs |-> ""]
    /\ client = [c \in Convs |-> None]
    /\ main_agent_buffer = [c \in Convs |-> <<>>]
    /\ out = [c \in Convs |-> <<>>]
    /\ hist = [c \in Convs |-> <<>>]
    /\ stream = [c \in Convs |-> "closed"]
    /\ session_id = [c \in Convs |-> None]
    /\ produced = [c \in Convs |-> {}]
    /\ confirmed = [c \in Convs |-> {}]

\* The state: per conversation the position of its call, the local buffer of
\* line 321, what the call has yielded, and what the engine was started with.
TypeOK ==
    /\ pc \in [Convs -> {"idle", "stream", "done", "failed"}]
    /\ stream \in [Convs -> {"closed", "open", "ended", "raised"}]
    /\ turn \in [Convs -> Nat]
    /\ query \in [Convs -> Inbound \cup {""}]
    /\ \A c \in Convs :
          /\ IF turn[c] = 0 THEN client[c] = None ELSE client[c] = options
          /\ produced[c] \subseteq WorkerSet
          /\ confirmed[c] \subseteq produced[c]
          /\ \A k \in 1..Len(main_agent_buffer[c]) :
                Tokens(main_agent_buffer[c][k]) \subseteq Tokens(Letters) \cup Whitespace
          /\ Len(out[c]) >= 0
          /\ Len(hist[c]) >= 0

\* BufferOf with one list for all calls (a list at module level).
BufferShared(c) == "k1"

\* The slot of main_agent_buffer a call uses: the list is local to the call
\* (line 321).
BufferOf(c) == c

\* Lines 272-325: a call of chat() for conversation c begins.  An inbound
\* message that confirms makes the output produced so far confirmed.
Begin(c) ==
    /\ \E user_message \in Inbound :
        /\ query' = [query EXCEPT ![c] = user_message]
        /\ confirmed' = [confirmed EXCEPT
                            ![c] = IF user_message = "yes" THEN produced[c] ELSE @]
    /\ turn' = [turn EXCEPT ![c] = @ + 1]
    /\ client' = [client EXCEPT ![c] = options]
    /\ main_agent_buffer' = [main_agent_buffer EXCEPT ![BufferOf(c)] = <<>>]
    /\ out' = [out EXCEPT ![c] = <<>>]
    /\ hist' = [hist EXCEPT ![c] = <<>>]
    /\ stream' = [stream EXCEPT ![c] = "open"]
    /\ pc' = [pc EXCEPT ![c] = "stream"]
    /\ UNCHANGED <<session_id, produced>>

\* The first turn of conversation c.
StartTurn(c) ==
    /\ pc[c] = "idle"
    /\ Begin(c)

\* A later turn of conversation c: the call of the turn before has ended.
NextTurn(c, maxTurns) ==
    /\ pc[c] \in {"done", "failed"}
    /\ turn[c] < maxTurns
    /\ Begin(c)

\* The workers whose text a message makes the call yield.
Speaks(message) ==
    IF IsAssistant(message) /\ ~Raises(message)
       /\ message.parent_tool_use_id # None /\ TextsOf(message.content) # <<>>
    THEN {message.parent_tool_use_id} ELSE {}

\* Lines 327-404: the engine delivers the next message and the loop body runs.
Receive(c, message) ==
    LET step == ProcessMessage(main_agent_buffer[BufferOf(c)], message)
    IN  /\ hist' = [hist EXCEPT ![c] = Append(@, message)]
        /\ main_agent_buffer' = [main_agent_buffer EXCEPT ![BufferOf(c)] = step.buffer]
        /\ out' = [out EXCEPT ![c] = @ \o step.yields]
        /\ pc' = [pc EXCEPT ![c] = IF step.raised THEN "failed" ELSE "stream"]
        /\ session_id' = [session_id EXCEPT
                             ![c] = IF message.session_id # None
                                    THEN message.session_id ELSE @]
        /\ produced' = [produced EXCEPT ![c] = @ \cup Speaks(message)]
        /\ UNCHANGED <<turn, query, client, stream, confirmed>>

ReceiveMessage(c, messages, maxEvents) ==
    /\ pc[c] = "stream"
    /\ Len(hist[c]) < maxEvents
    /\ \E message \in messages : Receive(c, message)

\* EngineFail with the exception swallowed around the loop: the call goes
\* on to lines 406-410 and ends as if the stream had ended.
EngineFailMasked(c) ==
    /\ pc[c] = "stream"
    /\ stream' = [stream EXCEPT ![c] = "raised"]
    /\ out' = [out EXCEPT ![c] = @ \o FinalFlush(main_agent_buffer[BufferOf(c)])]
    /\ pc' = [pc EXCEPT ![c] = "done"]
    /\ UNCHANGED <<turn, query, client, main_agent_buffer, hist,
                   session_id, produced, confirmed>>

\* Line 327: receive_response raises; nothing catches it (lines 324-404 hold
\* no try), so the exception leaves chat() and lines 406-410 are not run.
EngineFail(c) ==
    /\ pc[c] = "stream"
    /\ stream' = [stream EXCEPT ![c] = "raised"]
    /\ pc' = [pc EXCEPT ![c] = "failed"]
    /\ UNCHANGED <<turn, query, client, main_agent_buffer, out, hist,
                   session_id, produced, confirmed>>

\* EndOfStream with the loop not left when the stream has ended: the call
\* stays where it is and never gets to lines 406-410.
EndOfStreamStays(c) ==
    /\ pc[c] = "stream"
    /\ stream' = [stream EXCEPT ![c] = "ended"]
    /\ UNCHANGED <<pc, turn, query, client, main_agent_buffer, out, hist,
                   session_id, produced, confirmed>>

\* Lines 327 and 406-410: the stream ends; the rest of the buffer is yielded
\* and the generator is exhausted.  The buffer is not cleared.
EndOfStream(c) ==
    /\ pc[c] = "stream"
    /\ stream' = [stream EXCEPT ![c] = "ended"]
    /\ out' = [out EXCEPT ![c] = @ \o FinalFlush(main_agent_buffer[BufferOf(c)])]
    /\ pc' = [pc EXCEPT ![c] = "done"]
    /\ UNCHANGED <<turn, query, client, main_agent_buffer, hist,
                   session_id, produced, confirmed>>

\* The position of the next message of conversation c.
Pos(c) == Len(hist[c]) + 1

\* One call of chat().
Next ==
    \/ StartTurn("k1")
    \/ ReceiveMessage("k1", EventPool("k1", turn["k1"], Pos("k1")), MaxEvents)
    \/ EngineFail("k1")
    \/ EndOfStream("k1")

Spec == Init /\ [][Next]_vars

\* One call of chat() whose response stream the engine ends after finitely
\* many messages, unless the call has failed before.
SpecFair == Init /\ [][Next]_vars /\ WF_vars(EndOfStream("k1"))

\* One conversation over several turns.
NextTurns ==
    \/ StartTurn("k1")
    \/ NextTurn("k1", MaxTurns)
    \/ ReceiveMessage("k1", TurnPool("k1", turn["k1"], Pos("k1")), TurnEvents)
    \/ EngineFail("k1")
    \/ EndOfStream("k1")

SpecTurns == Init /\ [][NextTurns]_vars

\* Two conversations whose calls interleave.
NextConc ==
    \E c \in Convs :
        \/ StartTurn(c)
        \/ ReceiveMessage(c, ConcPool(c, turn[c], Pos(c)), ConcEvents)
        \/ EngineFail(c)
        \/ EndOfStream(c)

SpecConc == Init /\ [][NextConc]_vars

-----------------------------------------------------------------------------
(* Vocabulary of the properties *)

LetterSet == Tokens(Letters)

LetterIdx(t) == CHOOSE k \in 1..Len(Letters) : Letters[k] = t

IsLetter(t) == t \in LetterSet

\* The letters of a text, in the order they stand in it.
LettersIn(text) == SelectSeq(text, IsLetter)

\* All fragments of an output laid end to end.
Flatten(fragments) == Join(<<>>, fragments)

\* t is a contiguous part of s.
Contains(s, t) == \E k \in 0..(Len(s) - Len(t)) : SubSeq(s, k + 1, k + Len(t)) = t

\* A fragment wrapped as an annotation block.
IsAnnotation(fragment) ==
    /\ Len(fragment) >= 2 * Len(Fence)
    /\ SubSeq(fragment, 1, Len(Fence)) = Fence
    /\ SubSeq(fragment, Len(fragment) - Len(Fence) + 1, Len(fragment)) = Fence

\* A fragment with nothing of an annotation in it.
IsPlain(fragment) ==
    Tokens(fragment) \cap {"<fence>", "thought: ", "Delegating to: ",
                           "Prompt to subagent:"} = {}

\* An assistant message the loop body handles without raising.
Handled(m) ==
    /\ m.type = "AssistantMessage"
    /\ m.has_content
    /\ \A k \in 1..Len(m.content) :
          m.content[k].type = "ToolUseBlock" /\ m.content[k].name = "Task"
              => m.content[k].input.kind # "list"

TaskBlocks(m) ==
    {k \in 1..Len(m.content) :
        m.content[k].type = "ToolUseBlock" /\ m.content[k].name = "Task"}

TextBlocks(m) == {k \in 1..Len(m.content) : m.content[k].type = "TextBlock"}

\* The workers the Task blocks of a message name.
WorkersNamed(m) == {m.content[k].input.subagent_type : k \in TaskBlocks(m)}

IsTopText(m) == Handled(m) /\ m.parent_tool_use_id = None /\ TaskBlocks(m) = {}

IsTopDelegation(m) == Handled(m) /\ m.parent_tool_use_id = None /\ TaskBlocks(m) # {}

IsSub(m) == Handled(m) /\ m.parent_tool_use_id # None

\* The texts of the text blocks of a message, in block order, laid end to end.
TextOf(m) == Join(<<>>, [k \in 1..Len(m.content) |-> m.content[k].text])

\* The text the main agent has sent since the last delegation request or
\* sub-agent message of the received messages h: what is waiting to be shown.
RECURSIVE Pending(_)
Pending(h) ==
    IF h = <<>> THEN <<>>
    ELSE LET m == h[Len(h)]
             rest == SubSeq(h, 1, Len(h) - 1)
         IN  IF IsTopText(m) THEN Pending(rest) \o TextOf(m)
             ELSE IF IsTopDelegation(m) \/ IsSub(m) THEN <<>>
             ELSE Pending(rest)

\* In the step, conversation c receives one more message.
Delivered(c) == Len(hist'[c]) = Len(hist[c]) + 1

Last(h) == h[Len(h)]

-----------------------------------------------------------------------------
(* C1 *)

-----------------------------------------------------------------------------
(* C2 *)

IsTextBlock(block) == block.type = "TextBlock"

\* The texts of the text blocks of a message, one per block, in block order.
BlockTexts(m) ==
    LET blocks == SelectSeq(m.content, IsTextBlock)
    IN  [k \in 1..Len(blocks) |-> blocks[k].text]

\* A sub-agent message with text arrives.
SubTextArrives(c) ==
    /\ Delivered(c)
    /\ IsSub(Last(hist'[c]))
    /\ TextBlocks(Last(hist'[c])) # {}

\* The step appends to the output of c one plain fragment holding `text`,
\* then the fragments `after`, and nothing else.
AppendsPlainThen(c, text, after) ==
    /\ Len(out'[c]) = Len(out[c]) + 1 + Len(after)
    /\ SubSeq(out'[c], 1, Len(out[c])) = out[c]
    /\ IsPlain(out'[c][Len(out[c]) + 1])
    /\ Contains(out'[c][Len(out[c]) + 1], text)
    /\ SubSeq(out'[c], Len(out[c]) + 2, Len(out'[c])) = after

\* C2 as stated: whenever a sub-agent text message arrives while the buffer
\* holds text of the main agent, that text is emitted as one plain fragment
\* right before the sub-agent's text and the buffer is empty afterwards.
C2_Original ==
    [][\A c \in Convs :
        SubTextArrives(c) /\ main_agent_buffer[c] # <<>>
        => /\ AppendsPlainThen(c, Strip(Pending(hist[c])), BlockTexts(Last(hist'[c])))
           /\ main_agent_buffer'[c] = <<>>
      ]_vars

\* C2 amended: when a sub-agent text message arrives while the buffer holds
\* text of the main agent that is not only whitespace, the buffered text
\* (surrounding whitespace trimmed) is emitted as one plain fragment, with no
\* annotation wrapper, right before the sub-agent's text with no fragment in
\* between; buffered text that is only whitespace is dropped without a
\* fragment; the buffer is empty afterwards in both cases.
C2_PlainFlushBeforeSubagent ==
    [][\A c \in Convs :
        SubTextArrives(c) /\ main_agent_buffer[c] # <<>>
        => /\ IF Strip(Join(<<>>, main_agent_buffer[c])) # <<>>
              THEN AppendsPlainThen(c, Strip(Pending(hist[c])),
                                    BlockTexts(Last(hist'[c])))
              ELSE out'[c] = out[c] \o BlockTexts(Last(hist'[c]))
           /\ main_agent_buffer'[c] = <<>>
      ]_vars

\* A text message of the main agent, then a sub-agent's text: two fragments,
\* the flushed text and the sub-agent's.
C2_Witness ==
    \E c \in Convs :
        /\ Len(hist[c]) = 2
        /\ IsTopText(hist[c][1])
        /\ Len(LettersIn(TextOf(hist[c][1]))) > 0
        /\ IsSub(hist[c][2])
        /\ Cardinality(TextBlocks(hist[c][2])) = 1
        /\ Len(out[c]) = 2
        /\ IsPlain(out[c][1])
        /\ out[c][2] = TextOf(hist[c][2])
        /\ main_agent_buffer[c] = <<>>

-----------------------------------------------------------------------------
(* C3 *)

\* In the step, the stream of conversation c ends.
StreamEnds(c) == pc[c] = "stream" /\ pc'[c] = "done"

\* C3 as stated: when the stream ends with a non-empty buffer, exactly one
\* more fragment is emitted, whatever the buffer holds.
C3_Original ==
    [][\A c \in Convs :
        StreamEnds(c) /\ main_agent_buffer[c] # <<>>
        => /\ Len(out'[c]) = Len(out[c]) + 1
           /\ SubSeq(out'[c], 1, Len(out[c])) = out[c]
      ]_vars

\* C3 amended: when the stream ends with a buffer that holds text which is
\* not only whitespace, the buffered text (surrounding whitespace trimmed) is
\* emitted as plain prose exactly once, as one final fragment; when the
\* buffer is empty or holds only whitespace, nothing is emitted; after the
\* end nothing more is emitted.
C3_FinalFlushOnce ==
    [][\A c \in Convs :
        /\ StreamEnds(c)
           => IF Strip(Join(<<>>, main_agent_buffer[c])) # <<>>
              THEN /\ out'[c] = Append(out[c], Strip(Pending(hist[c])))
                   /\ IsPlain(Last(out'[c]))
              ELSE out'[c] = out[c]
        /\ pc[c] = "done" /\ pc'[c] = "done" => out'[c] = out[c]
      ]_vars

\* The stream has ended after two text messages of the main agent: the one
\* fragment is their text.
C3_Witness ==
    \E c \in Convs :
        /\ pc[c] = "done"
        /\ Len(hist[c]) = 2
        /\ IsTopText(hist[c][1])
        /\ IsTopText(hist[c][2])
        /\ Len(LettersIn(Pending(hist[c]))) >= 2
        /\ out[c] = <<Strip(Pending(hist[c]))>>

-----------------------------------------------------------------------------
(* C4 *)

\* A handled message with a text block and a Task block.
IsMixed(m) == Handled(m) /\ TextBlocks(m) # {} /\ TaskBlocks(m) # {}

\* C4: once the turn has ended normally, every message that held text
\* together with a Task block has its text in the output and an annotation
\* block naming its worker in the output.
C4_TextAndDelegationSurface ==
    \A c \in Convs :
        pc[c] = "done"
        => \A k \in 1..Len(hist[c]) :
              IsMixed(hist[c][k])
              => /\ Tokens(LettersIn(TextOf(hist[c][k]))) \subseteq Tokens(Flatten(out[c]))
                 /\ \E f \in 1..Len(out[c]) :
                       /\ IsAnnotation(out[c][f])
                       /\ WorkersNamed(hist[c][k]) \cap Tokens(out[c][f]) # {}

-----------------------------------------------------------------------------
(* C5 *)

\* The letters stand in the order of the messages and blocks they came with.
InOrder(letters) ==
    \A p, q \in 1..Len(letters) :
        p < q => LetterIdx(letters[p]) < LetterIdx(letters[q])

\* The letters of the text messages of the main agent among h.
TopTextLetters(h) ==
    UNION {Tokens(LettersIn(TextOf(h[k]))) : k \in {j \in 1..Len(h) : IsTopText(h[j])}}

\* C5: whatever has been emitted stands in the order in which the engine
\* sent it (the strings of the i-th message are made of letters of their own,
\* in alphabetical order of arrival), and text of the main agent is held back
\* no longer than to the next delegation request, sub-agent message or end of
\* the turn: at each of these points all of it is in the output.
C5_OrderMatchesEmission ==
    \A c \in Convs :
        /\ InOrder(LettersIn(Flatten(out[c])))
        /\ (pc[c] = "done" \/ (pc[c] = "stream" /\ Pending(hist[c]) = <<>>))
           => TopTextLetters(hist[c]) \subseteq Tokens(Flatten(out[c]))

\* Text of the main agent, then a sub-agent's text, then a delegation
\* request: three messages, and the text of each is in the output.
C5_Witness ==
    \E c \in Convs :
        /\ Len(hist[c]) = 3
        /\ IsTopText(hist[c][1])
        /\ IsSub(hist[c][2])
        /\ IsTopDelegation(hist[c][3])
        /\ Len(out[c]) >= 3
        /\ Len(LettersIn(Flatten(out[c]))) >= 3
        /\ TopTextLetters(hist[c]) # {}

-----------------------------------------------------------------------------
(* C6 *)

\* C6: the step that handles a message which is no assistant message (the
\* init message, a replayed user or tool-result message, the result message)
\* emits nothing, leaves the buffer as it is and goes on with the stream.
C6_NonAssistantIgnored ==
    [][\A c \in Convs :
        Delivered(c) /\ Last(hist'[c]).type # "AssistantMessage"
        => /\ out'[c] = out[c]
           /\ main_agent_buffer'[c] = main_agent_buffer[c]
           /\ pc'[c] = "stream"
      ]_vars

\* Text of the main agent is waiting; a replayed user message with text and
\* the init message have gone by; the buffer holds the main agent's text
\* only and nothing is emitted.
C6_Witness ==
    \E c \in Convs :
        /\ Len(hist[c]) = 3
        /\ IsTopText(hist[c][1])
        /\ hist[c][2].type = "UserMessage"
        /\ TextBlocks(hist[c][2]) # {}
        /\ hist[c][3].type = "SystemMessage"
        /\ hist[c][3].session_id # None
        /\ main_agent_buffer[c] = BlockTexts(hist[c][1])
        /\ out[c] = <<>>
        /\ pc[c] = "stream"

-----------------------------------------------------------------------------
(* C7 *)

\* C7: a turn that follows a turn in which the engine announced session
\* token t starts the engine with resume token t.
C7_ResumesAnnouncedSession ==
    [][\A c \in Convs :
        pc[c] \in {"done", "failed"} /\ pc'[c] = "stream" /\ session_id[c] # None
        => client'[c].resume = session_id[c]
      ]_vars

-----------------------------------------------------------------------------
(* C8 *)

\* What a call that has received h alone has emitted by the time it is at
\* position p.
AloneOut(h, p) ==
    Run(h).out \o (IF p = "done" THEN FinalFlush(Run(h).buffer) ELSE <<>>)

-----------------------------------------------------------------------------
(* C9 *)

\* C9: a delegation request of the main agent names a worker of a stage
\* after the first only when the worker of the stage before has produced
\* output that a later inbound message confirmed, and never a worker of a
\* stage before one that has already produced output.
C9_StagesInOrder ==
    \A c \in Convs :
        \A k \in 1..Len(hist[c]) :
            IsTopDelegation(hist[c][k])
            => \A w \in WorkersNamed(hist[c][k]) \cap WorkerSet :
                  /\ StageOf(w) > 1 => Workers[StageOf(w) - 1] \in confirmed[c]
                  /\ \A v \in confirmed[c] : StageOf(v) <= StageOf(w)

-----------------------------------------------------------------------------
(* C10 *)

\* C10: when the response stream has raised, the call has failed (it has
\* not ended normally), and its output is exactly what the messages received
\* before the failure had made it emit: nothing is taken back and nothing is
\* added, the text still buffered included.
C10_FailureNotMasked ==
    \A c \in Convs :
        stream[c] = "raised"
        => /\ pc[c] = "failed"
           /\ out[c] = Run(hist[c]).out

\* The stream has raised after a sub-agent's text was emitted and while text
\* of the main agent was waiting in the buffer.
C10_Witness ==
    \E c \in Convs :
        /\ stream[c] = "raised"
        /\ pc[c] = "failed"
        /\ Len(hist[c]) = 2
        /\ IsSub(hist[c][1])
        /\ out[c] = BlockTexts(hist[c][1])
        /\ Strip(Pending(hist[c])) # <<>>

-----------------------------------------------------------------------------
(* C11 *)

\* An assistant message of a shape the loop does not expect: its content is
\* None, or a Task block of it has an input that is no mapping.
IsMalformed(m) ==
    /\ m.type = "AssistantMessage"
    /\ \/ ~m.has_content
       \/ \E k \in TaskBlocks(m) : m.content[k].input.kind # "dict"

\* C11: the step that handles a malformed message emits nothing, leaves the
\* buffer as it is, and the call goes on with the stream.
C11_MalformedDropped ==
    [][\A c \in Convs :
        Delivered(c) /\ IsMalformed(Last(hist'[c]))
        => /\ out'[c] = out[c]
           /\ main_agent_buffer'[c] = main_agent_buffer[c]
           /\ pc'[c] = "stream"
      ]_vars

-----------------------------------------------------------------------------
(* C12 *)

Finished(c) == pc[c] \in {"done", "failed"}

\* C12: a call whose stream the engine ends after finitely many messages
\* comes to its end (the generator is exhausted, or has raised), and once at
\* its end it emits nothing more and does not go back into the stream.
C12_TurnTerminates ==
    /\ \A c \in Convs : (pc[c] = "stream") ~> Finished(c)
    /\ [][\A c \in Convs : Finished(c) => out'[c] = out[c] /\ pc'[c] = pc[c]]_vars

\* The call has ended normally after as many messages as the bound allows
\* and has emitted fragments.
C12_Witness ==
    \E c \in Convs :
        /\ pc[c] = "done"
        /\ stream[c] = "ended"
        /\ Len(hist[c]) = MaxEvents
        /\ Len(out[c]) >= 2

-----------------------------------------------------------------------------
(* C13 *)

\* C13: the step that handles a message with a Task block, of the main agent
\* or of a sub-agent, appends exactly one fragment to the output: an
\* annotation block naming a worker the message asks for.
C13_DelegationWhateverOrigin ==
    [][\A c \in Convs :
        (/\ Delivered(c)
         /\ Handled(Last(hist'[c]))
         /\ TaskBlocks(Last(hist'[c])) # {})
        => /\ Len(out'[c]) = Len(out[c]) + 1
           /\ SubSeq(out'[c], 1, Len(out[c])) = out[c]
           /\ IsAnnotation(Last(out'[c]))
           /\ WorkersNamed(Last(hist'[c])) \cap Tokens(Last(out'[c])) # {}
      ]_vars

-----------------------------------------------------------------------------
(* C14 *)

\* In the step, a flush point of conversation c is handled: a delegation
\* request of the main agent, a sub-agent message, or the end of the stream.
FlushPoint(c) ==
    \/ Delivered(c) /\ (IsTopDelegation(Last(hist'[c])) \/ IsSub(Last(hist'[c])))
    \/ StreamEnds(c)

\* C14: the step that handles a text message of the main agent emits
\* nothing and appends the texts of its text blocks to the buffer; the
\* output changes only in steps that handle a flush point.
C14_TopTextOnlyBuffered ==
    [][\A c \in Convs :
        /\ Delivered(c) /\ IsTopText(Last(hist'[c]))
           => /\ out'[c] = out[c]
              /\ main_agent_buffer'[c] =
                    main_agent_buffer[c] \o BlockTexts(Last(hist'[c]))
        /\ out'[c] # out[c] => FlushPoint(c)
      ]_vars

\* A sub-agent's text has been emitted, then two text messages of the main
\* agent have come: the output is still the sub-agent's text alone and the
\* buffer holds the texts of both messages.
C14_Witness ==
    \E c \in Convs :
        /\ pc[c] = "stream"
        /\ Len(hist[c]) = 3
        /\ IsSub(hist[c][1])
        /\ IsTopText(hist[c][2])
        /\ IsTopText(hist[c][3])
        /\ out[c] = BlockTexts(hist[c][1])
        /\ out[c] # <<>>
        /\ main_agent_buffer[c] = BlockTexts(hist[c][2]) \o BlockTexts(hist[c][3])
        /\ Len(main_agent_buffer[c]) >= 2

-----------------------------------------------------------------------------
(* C15 *)

\* C15 as stated: the buffer is empty right after every flush point, the end
\* of the turn included.
C15_Original ==
    [][\A c \in Convs : FlushPoint(c) => main_agent_buffer'[c] = <<>>]_vars

\* C15 amended: the buffer is empty right after a delegation request of the
\* main agent and after any sub-agent message; at the end of the turn the
\* buffer is flushed but left as it is, and the call is over.  While the
\* stream is read the buffer holds exactly the main agent's text received
\* since the last flush point, and no text stands twice in the output.
C15_BufferClearedOnFlush ==
    [][\A c \in Convs :
        /\ Delivered(c) /\ (IsTopDelegation(Last(hist'[c])) \/ IsSub(Last(hist'[c])))
           => main_agent_buffer'[c] = <<>>
        /\ StreamEnds(c)
           => main_agent_buffer'[c] = main_agent_buffer[c] /\ Finished(c)'
        /\ pc'[c] = "stream"
           => Join(<<>>, main_agent_buffer'[c]) = Pending(hist'[c])
        /\ InOrder(LettersIn(Flatten(out'[c])))
      ]_vars

\* Text of the main agent, a delegation request, text of the main agent
\* again: one block is out and the buffer holds the later text only.
C15_Witness ==
    \E c \in Convs :
        /\ pc[c] = "stream"
        /\ Len(hist[c]) = 3
        /\ IsTopText(hist[c][1])
        /\ Len(LettersIn(TextOf(hist[c][1]))) > 0
        /\ IsTopDelegation(hist[c][2])
        /\ IsTopText(hist[c][3])
        /\ Len(out[c]) = 1
        /\ main_agent_buffer[c] = BlockTexts(hist[c][3])
        /\ main_agent_buffer[c] # <<>>

-----------------------------------------------------------------------------
(* C16 *)

\* The first place of token t in a fragment.
IndexOf(fragment, t) ==
    CHOOSE k \in 1..Len(fragment) :
        fragment[k] = t /\ \A j \in 1..(k - 1) : fragment[j] # t

\* Sections s and t, where both stand in the fragment, stand in this order.
Before(fragment, s, t) ==
    s \in Tokens(fragment) /\ t \in Tokens(fragment)
        => IndexOf(fragment, s) < IndexOf(fragment, t)

\* The input of the one Task block of a message.
TheTask(m) == m.content[CHOOSE k \in TaskBlocks(m) : TRUE].input

\* A delegation request of the main agent with one Task block arrives.
OneTaskArrives(c) ==
    /\ Delivered(c)
    /\ IsTopDelegation(Last(hist'[c]))
    /\ Cardinality(TaskBlocks(Last(hist'[c]))) = 1

\* The fragment is one wrapped unit that names the target and its
\* description, has the prompt section exactly when there is a prompt, and
\* has its sections in the order thought, target, prompt.
TargetAndPrompt(fragment, task) ==
    /\ IsAnnotation(fragment)
    /\ Cardinality({k \in 1..Len(fragment) : fragment[k] = "<fence>"}) = 2
    /\ Contains(fragment, <<"Delegating to: ", task.subagent_type, " - ">>
                          \o task.description)
    /\ "Prompt to subagent:" \in Tokens(fragment) <=> task.prompt # <<>>
    /\ task.prompt # <<>>
       => Contains(fragment, <<"Prompt to subagent:", "\n">> \o task.prompt)
    /\ Before(fragment, "thought: ", "Delegating to: ")
    /\ Before(fragment, "Delegating to: ", "Prompt to subagent:")

\* C16 as stated: the block has the thought section exactly when the
\* buffered text is not empty.
C16_Original ==
    [][\A c \in Convs :
        OneTaskArrives(c)
        => /\ TargetAndPrompt(Last(out'[c]), TheTask(Last(hist'[c])))
           /\ "thought: " \in Tokens(Last(out'[c]))
                 <=> Join(<<>>, main_agent_buffer[c]) # <<>>
      ]_vars

\* C16 amended: the annotation block always holds the target worker name
\* and the description; it holds the thought section exactly when the
\* buffered text is not empty after its surrounding whitespace is trimmed,
\* and the prompt section exactly when the request has a non-empty prompt;
\* the sections stand in the order thought, target, prompt in one wrapped
\* unit.
C16_BlockSections ==
    [][\A c \in Convs :
        OneTaskArrives(c)
        => /\ TargetAndPrompt(Last(out'[c]), TheTask(Last(hist'[c])))
           /\ "thought: " \in Tokens(Last(out'[c]))
                 <=> Strip(Pending(hist[c])) # <<>>
           /\ Strip(Pending(hist[c])) # <<>>
              => Contains(Last(out'[c]), <<"thought: ">> \o Strip(Pending(hist[c])))
      ]_vars

\* Text of the main agent, then its delegation request with a prompt: the
\* block has all three sections.
C16_Witness ==
    \E c \in Convs :
        /\ Len(hist[c]) = 2
        /\ IsTopText(hist[c][1])
        /\ IsTopDelegation(hist[c][2])
        /\ Cardinality(TaskBlocks(hist[c][2])) = 1
        /\ TheTask(hist[c][2]).prompt # <<>>
        /\ Len(out[c]) = 1
        /\ {"thought: ", "Delegating to: ", "Prompt to subagent:"}
              \subseteq Tokens(out[c][1])

-----------------------------------------------------------------------------
(* C17 *)

\* C17: the step that handles a sub-agent message appends each of its text
\* blocks to the output as a fragment of its own, the text unchanged and in
\* block order, and leaves the buffer empty: no sub-agent text is buffered.
C17_SubTextVerbatim ==
    [][\A c \in Convs :
        Delivered(c) /\ IsSub(Last(hist'[c]))
        => LET texts == BlockTexts(Last(hist'[c]))
               n == Len(out'[c])
           IN  /\ n >= Len(out[c]) + Len(texts)
               /\ SubSeq(out'[c], 1, Len(out[c])) = out[c]
               /\ SubSeq(out'[c], n - Len(texts) + 1, n) = texts
               /\ main_agent_buffer'[c] = <<>>
      ]_vars

\* A sub-agent message with two text blocks around a tool call has been
\* handled: two fragments, one for each text block.
C17_Witness ==
    \E c \in Convs :
        /\ Len(hist[c]) = 1
        /\ IsSub(hist[c][1])
        /\ Len(BlockTexts(hist[c][1])) = 2
        /\ out[c] = BlockTexts(hist[c][1])
        /\ main_agent_buffer[c] = <<>>

-----------------------------------------------------------------------------
(* C18 *)

\* The fragments of an output that hold text t.
FragmentsWith(fragments, t) ==
    {f \in 1..Len(fragments) : Contains(fragments[f], t)}

\* The places of token t in a text.
Places(text, t) == {k \in 1..Len(text) : text[k] = t}

\* C18: when the turn has ended normally, every text block of a text message
\* of the main agent that is not whitespace only stands, without its
\* surrounding whitespace, in exactly one fragment of the output, and each
\* of its letters stands in the output once.
C18_TopTextExactlyOnce ==
    \A c \in Convs :
        pc[c] = "done"
        => \A k \in 1..Len(hist[c]) :
              IsTopText(hist[c][k])
              => \A j \in TextBlocks(hist[c][k]) :
                    LET text == Strip(hist[c][k].content[j].text)
                    IN  text # <<>>
                        => /\ Cardinality(FragmentsWith(out[c], text)) = 1
                           /\ \A t \in Tokens(LettersIn(text)) :
                                 Cardinality(Places(Flatten(out[c]), t)) = 1

\* Text of the main agent, a delegation request, text of the main agent
\* again, and the stream has ended: the first text stands in the block, the
\* second in the last fragment.
C18_Witness ==
    \E c \in Convs :
        /\ pc[c] = "done"
        /\ Len(hist[c]) = 3
        /\ IsTopText(hist[c][1])
        /\ IsTopDelegation(hist[c][2])
        /\ IsTopText(hist[c][3])
        /\ Len(out[c]) = 2
        /\ LettersIn(TextOf(hist[c][1])) # <<>>
        /\ Contains(out[c][1], Strip(TextOf(hist[c][1])))
        /\ out[c][2] = Strip(TextOf(hist[c][3]))
        /\ out[c][2] # <<>>

-----------------------------------------------------------------------------
(* C19 *)

\* A delegation request of the main agent with several Task blocks arrives.
SeveralTasksArrive(c) ==
    /\ Delivered(c)
    /\ IsTopDelegation(Last(hist'[c]))
    /\ Cardinality(TaskBlocks(Last(hist'[c]))) >= 2

\* The place of the last Task block of a message.
LastTask(m) == CHOOSE k \in TaskBlocks(m) : \A j \in TaskBlocks(m) : j <= k

\* C19: the step that handles a message of the main agent with several Task
\* blocks appends one fragment, an annotation block that names the worker,
\* the description and the prompt of the last Task block; no worker name
\* and no description of an earlier Task block stands in it.
C19_LastTaskWins ==
    [][\A c \in Convs :
        SeveralTasksArrive(c)
        => LET m == Last(hist'[c])
               block == Last(out'[c])
           IN  /\ out'[c] = Append(out[c], block)
               /\ TargetAndPrompt(block, m.content[LastTask(m)].input)
               /\ Cardinality(Places(block, "Delegating to: ")) = 1
               /\ \A k \in TaskBlocks(m) \ {LastTask(m)} :
                     /\ m.content[k].input.subagent_type \notin Tokens(block)
                     /\ Tokens(m.content[k].input.description) \cap Tokens(block) = {}
      ]_vars

\* A message with two Task blocks for different workers has been handled:
\* the one block of the output names the second worker and carries its
\* prompt.
C19_Witness ==
    \E c \in Convs :
        /\ Len(hist[c]) = 1
        /\ IsTopDelegation(hist[c][1])
        /\ Cardinality(TaskBlocks(hist[c][1])) = 2
        /\ Cardinality(WorkersNamed(hist[c][1])) = 2
        /\ Len(out[c]) = 1
        /\ hist[c][1].content[2].input.subagent_type \in Tokens(out[c][1])
        /\ "Prompt to subagent:" \in Tokens(out[c][1])

====
